---- MODULE Spec2Model ----
(***************************************************************************)
(* Model of the Krutidev <-> Unicode converter of src/krutidev_converter.py *)
(* with detect_encoding of src/email_pipeline_ultimate.py and              *)
(* _detect_and_convert_text of src/email_pipeline.py                       *)
(*                                                                         *)
(* A string is a sequence of characters; a character is a short name:      *)
(*   legacy (Krutidev) side : "f" "Z" "a" "b" "d" "D" "j" "k" "h" "s" "~"  *)
(*                            "&" "z" "xaa" "xb1" "xc6" "xc7" "xaf" "xc9"  *)
(*                            "xca"                                        *)
(*   punctuation, ASCII     : "SP" (space) "TAB" "," "-" "x"               *)
(*   Devanagari (U+0900..)  : "KA" "RA" "VIR" (U+094D) "I" (U+093F)        *)
(*                            "AA" (U+093E) "II" (U+0940) "ANU" (U+0902)   *)
(*                            "E" (U+0947)                                 *)
(***************************************************************************)
EXTENDS Integers, Sequences, FiniteSets, TLC

VARIABLES inp, pc, text, prev, err, scans,
          cache, tpc, targ, tlocal, tbuilder, builds, assigns, lastCall,
          dtext, dres,
          craw, cpc, cconv, cres,
          tbuf, lastPure

fwdVars == <<inp, pc, text, prev, err, scans>>
revVars == <<cache, tpc, targ, tlocal, tbuilder, builds, assigns, lastCall>>
\* detect_encoding: its argument and its result
detVars == <<dtext, dres>>
\* _detect_and_convert_text: raw text, position, converted text, result
convVars == <<craw, cpc, cconv, cres>>
\* callers of the pure functions on several threads: the local buffer of each,
\* and the last call that returned
mixVars == <<tbuf, lastPure>>
vars == <<inp, pc, text, prev, err, scans,
          cache, tpc, targ, tlocal, tbuilder, builds, assigns, lastCall,
          dtext, dres, craw, cpc, cconv, cres, tbuf, lastPure>>

----------------------------------------------------------------------------
(* Bounds of the model *)

MaxLen == 4
MaxRevLen == 2
NThreads == 2

----------------------------------------------------------------------------
(* Character classes *)

SP == "SP"
TAB == "TAB"
KA == "KA"
RA == "RA"
VIR == "VIR"
SHORT_I == "I"
AA == "AA"
II == "II"
ANU == "ANU"
EE == "E"

\* 'ऀ' <= c <= 'ॿ'
Devanagari ==
  {KA, RA, VIR, SHORT_I, AA, II, ANU, EE, "DANDA", "DDANDA", "CANDRA",
   "U", "UU", "RI", "AI", "O", "AU",
   "D0", "D1", "D2", "D3", "D4", "D5", "D6", "D7", "D8", "D9"}

\* str.isspace / str.strip whitespace
Whitespace == {SP, TAB}

\* dictionary.MAIN: the ordered glyph table (legacy sequence, Unicode sequence)
MAIN ==
  << << <<"~", "j">>, <<VIR, RA>> >>,
     << <<"d">>, <<KA>> >>,
     << <<"D", "k">>, <<KA>> >>,
     << <<"D">>, <<KA, VIR>> >>,
     << <<"j">>, <<RA>> >>,
     << <<"k">>, <<AA>> >>,
     << <<"h">>, <<II>> >>,
     << <<"s">>, <<EE>> >>,
     << <<"a">>, <<ANU>> >>,
     << <<"~">>, <<VIR>> >>,
     << <<"z">>, <<VIR, RA>> >>,
     << <<"&">>, <<"-">> >> >>

\* dictionary.CONSONANTS['krutidev'], UNATTACHED['krutidev']
CONSONANTS_krutidev == {"d", "j"}
UNATTACHED_krutidev == {"k", "h", "s", "a"}
\* dictionary.VOWELS['unicode'], UNATTACHED['unicode']
VOWELS_unicode == {AA, SHORT_I, II, EE}
UNATTACHED_unicode == <<AA, SHORT_I, II, ANU>>
CONSONANTS_unicode == {KA, RA}

----------------------------------------------------------------------------
(* Python string primitives *)

StartsWithAt(s, i, sub) ==
  /\ i + Len(sub) - 1 <= Len(s)
  /\ SubSeq(s, i, i + Len(sub) - 1) = sub

RECURSIVE ReplaceFrom(_, _, _, _)
ReplaceFrom(s, find, rep, i) ==
  IF i > Len(s) THEN <<>>
  ELSE IF StartsWithAt(s, i, find)
       THEN rep \o ReplaceFrom(s, find, rep, i + Len(find))
       ELSE <<s[i]>> \o ReplaceFrom(s, find, rep, i + 1)

\* replace_string(text, find, replace): every occurrence, left to right
replace_string(t, find, rep) == ReplaceFrom(t, find, rep, 1)

RECURSIVE FindFrom(_, _, _)
FindFrom(s, sub, i) ==
  IF i + Len(sub) - 1 > Len(s) THEN -1
  ELSE IF StartsWithAt(s, i, sub) THEN i - 1
       ELSE FindFrom(s, sub, i + 1)

\* str.find: 0-based index of the first occurrence, -1 when there is none
Find(s, sub) == FindFrom(s, sub, 1)

\* str.replace(old, new, 1): the first occurrence only (old is never empty here)
ReplaceFirst(s, old, new) ==
  LET i == Find(s, old)
  IN IF i < 0 THEN s
     ELSE SubSeq(s, 1, i) \o new \o SubSeq(s, i + Len(old) + 1, Len(s))

\* s[i] with Python's 0-based index: a negative index counts from the end
IndexOK(s, i) == (-Len(s)) <= i /\ i < Len(s)
PyAt(s, i) == IF i >= 0 THEN s[i + 1] ELSE s[Len(s) + i + 1]

RECURSIVE LStrip(_)
LStrip(s) == IF s # <<>> /\ Head(s) \in Whitespace THEN LStrip(Tail(s)) ELSE s
RECURSIVE RStrip(_)
RStrip(s) ==
  IF s # <<>> /\ s[Len(s)] \in Whitespace THEN RStrip(SubSeq(s, 1, Len(s) - 1))
  ELSE s
\* str.strip()
Strip(s) == RStrip(LStrip(s))

\* re.finditer(tok + '(.?)', s) with DOTALL: group(1) of every match, in order
RECURSIVE GroupsAfter(_, _, _)
GroupsAfter(s, tok, i) ==
  IF i > Len(s) THEN <<>>
  ELSE IF StartsWithAt(s, i, tok)
       THEN LET j == i + Len(tok)
            IN IF j <= Len(s) THEN << <<s[j]>> >> \o GroupsAfter(s, tok, j + 1)
               ELSE << <<>> >>
       ELSE GroupsAfter(s, tok, i + 1)

\* re.finditer('(.?)Z', s) with DOTALL: group(1) of every match, in order
RECURSIVE GroupsBeforeZ(_, _)
GroupsBeforeZ(s, i) ==
  IF i > Len(s) THEN <<>>
  ELSE IF i + 1 <= Len(s) /\ s[i + 1] = "Z"
       THEN << <<s[i]>> >> \o GroupsBeforeZ(s, i + 2)
       ELSE IF s[i] = "Z" THEN << <<>> >> \o GroupsBeforeZ(s, i + 1)
            ELSE GroupsBeforeZ(s, i + 1)

\* the matches visited from the last to the first
RECURSIVE AmbiguousAtReversed(_, _)
AmbiguousAtReversed(s, i) ==
  IF i > Len(s) THEN <<>>
  ELSE IF s[i] \in {"a", "b"} THEN AmbiguousAtReversed(s, i + 1) \o <<i - 1>>
       ELSE AmbiguousAtReversed(s, i + 1)

\* re.finditer('[ab]', s): the 0-based start of every match
RECURSIVE AmbiguousAt(_, _)
AmbiguousAt(s, i) ==
  IF i > Len(s) THEN <<>>
  ELSE IF s[i] \in {"a", "b"} THEN <<i - 1>> \o AmbiguousAt(s, i + 1)
       ELSE AmbiguousAt(s, i + 1)

----------------------------------------------------------------------------
(* krutidev_to_unicode: the passes, in the order the function runs them *)

\* space + combining glyph  ->  combining glyph
SpacingCleanup(t) ==
  replace_string(
    replace_string(
      replace_string(t, <<SP, "xaa">>, <<"xaa">>),
      <<SP, "~", "j">>, <<"~", "j">>),
    <<SP, "z">>, <<"z">>)

\* text[index + 1] read without the bounds test
DashGuardOff(t, index) == TRUE

\* the bounds test that guards text[index + 1]
DashGuard(t, index) == index < Len(t) - 1

\* the loop over the matches of '[ab]': st = [text, err], idxs = match starts
RECURSIVE DashLoop(_, _)
DashLoop(st, idxs) ==
  IF idxs = <<>> \/ st.err THEN st
  ELSE LET index == Head(idxs)
           t == st.text
       IN IF DashGuard(t, index)
          THEN IF ~IndexOK(t, index + 1)
               THEN [text |-> t, err |-> TRUE, steps |-> 0]
               ELSE IF /\ PyAt(t, index + 1) \notin CONSONANTS_krutidev
                       /\ PyAt(t, index + 1) \notin UNATTACHED_krutidev
                    THEN DashLoop(
                           [text |-> SubSeq(t, 1, index) \o <<"&">>
                                       \o SubSeq(t, index + 2, Len(t)),
                            err |-> FALSE, steps |-> 0],
                           Tail(idxs))
                    ELSE DashLoop(st, Tail(idxs))
          ELSE DashLoop(st, Tail(idxs))

DashPass(t) == DashLoop([text |-> t, err |-> FALSE, steps |-> 0], AmbiguousAt(t, 1))

\* the table applied from its last rule to its first
RECURSIVE MainFromReversed(_, _)
MainFromReversed(t, k) ==
  IF k > Len(MAIN) THEN t
  ELSE replace_string(MainFromReversed(t, k + 1), MAIN[k][1], MAIN[k][2])

RECURSIVE MainFrom(_, _)
MainFrom(t, k) ==
  IF k > Len(MAIN) THEN t
  ELSE MainFrom(replace_string(t, MAIN[k][1], MAIN[k][2]), k + 1)

\* for find, replace in MAIN: text = replace_string(text, find, replace)
MainPass(t) == MainFrom(t, 1)

SpecialRemap(t) ==
  replace_string(
    replace_string(t, <<"xb1">>, <<"Z", ANU>>),
    <<"xc6">>, <<RA, VIR, "f">>)

\* for result in finditer: text = text.replace(tok + match, pre + match + post, 1)
RECURSIVE MoveLoop(_, _, _, _, _)
MoveLoop(t, tok, pre, post, groups) ==
  IF groups = <<>> THEN t
  ELSE MoveLoop(ReplaceFirst(t, tok \o Head(groups), pre \o Head(groups) \o post),
                tok, pre, post, Tail(groups))

\* the mark put before the following character instead of after it
ShortIPassMarkFirst(t) ==
  MoveLoop(t, <<"f">>, <<SHORT_I>>, <<>>, GroupsAfter(t, <<"f">>, 1))

\* f + ?  ->  ? + short i
ShortIPass(t) == MoveLoop(t, <<"f">>, <<>>, <<SHORT_I>>, GroupsAfter(t, <<"f">>, 1))

CompositeRemap(t) ==
  replace_string(
    replace_string(
      replace_string(t, <<"xc7">>, <<"f", "a">>),
      <<"xaf">>, <<"f", "a">>),
    <<"xc9">>, <<RA, VIR, "f", "a">>)

\* fa + ?  ->  ? + short i + anusvara
CompositeLoop(t) ==
  MoveLoop(t, <<"f", "a">>, <<>>, <<SHORT_I, ANU>>, GroupsAfter(t, <<"f", "a">>, 1))

CompositePass(t) == CompositeLoop(CompositeRemap(t))

LongIRemap(t) == replace_string(t, <<"xca">>, <<II, "Z">>)

\* short i + virama + ?  ->  virama + ? + short i
ShortIViramaLoop(t) ==
  MoveLoop(t, <<SHORT_I, VIR>>, <<VIR>>, <<SHORT_I>>,
           GroupsAfter(t, <<SHORT_I, VIR>>, 1))

ShortIViramaPass(t) == ShortIViramaLoop(LongIRemap(t))

\* virama + Z  ->  Z
ViramaAbsorb(t) == replace_string(t, <<VIR, "Z">>, <<"Z">>)

\* the loop test of the leftward scan
RephScanGuard(t, index) == index >= 0

\* the scan with its membership test negated: it moves left past non-vowel-signs
RECURSIVE RephScanNegated(_, _, _, _)
RephScanNegated(t, index, match, steps) ==
  IF index >= 0
  THEN IF PyAt(t, index) \notin VOWELS_unicode /\ PyAt(t, index) # "Z"
       THEN RephScanNegated(t, index - 1, <<PyAt(t, index - 1)>> \o match,
                            steps + 1)
       ELSE [match |-> match, err |-> FALSE, steps |-> steps]
  ELSE [match |-> match, err |-> FALSE, steps |-> steps]

\* while index >= 0 and text[index] in VOWELS['unicode']:
\*     index -= 1; match = text[index] + match
\* steps counts the iterations made
RECURSIVE RephScan(_, _, _, _)
RephScan(t, index, match, steps) ==
  IF RephScanGuard(t, index)
  THEN IF ~IndexOK(t, index)
       THEN [match |-> match, err |-> TRUE, steps |-> steps]
       ELSE IF PyAt(t, index) \in VOWELS_unicode
            THEN IF ~IndexOK(t, index - 1)
                 THEN [match |-> match, err |-> TRUE, steps |-> steps]
                 ELSE RephScan(t, index - 1, <<PyAt(t, index - 1)>> \o match,
                               steps + 1)
            ELSE [match |-> match, err |-> FALSE, steps |-> steps]
  ELSE [match |-> match, err |-> FALSE, steps |-> steps]

Max(a, b) == IF a >= b THEN a ELSE b

\* the loop over the matches of '(.?)Z': st = [text, err, steps], steps being
\* the iterations of the longest scan so far
RECURSIVE RephLoop(_, _)
RephLoop(st, groups) ==
  IF groups = <<>> \/ st.err THEN st
  ELSE LET t == st.text
           index == Find(t, Head(groups) \o <<"Z">>)
           r == RephScan(t, index, Head(groups), 0)
       IN IF r.err THEN [text |-> t, err |-> TRUE, steps |-> Max(st.steps, r.steps)]
          ELSE RephLoop(
                 [text |-> ReplaceFirst(t, r.match \o <<"Z">>, <<RA, VIR>> \o r.match),
                  err |-> FALSE, steps |-> Max(st.steps, r.steps)],
                 Tail(groups))

RephPlacement(t) ==
  RephLoop([text |-> t, err |-> FALSE, steps |-> 0], GroupsBeforeZ(t, 1))

RephPass(t) == RephPlacement(ViramaAbsorb(t))

\* the three rewrites of one matra
MatraRewrite(t, matra) ==
  replace_string(
    replace_string(
      replace_string(t, <<SP, matra>>, <<matra>>),
      <<",", matra>>, <<matra, ",">>),
    <<VIR, matra>>, <<matra, ",">>)

RECURSIVE MatraFrom(_, _)
MatraFrom(t, k) ==
  IF k > Len(UNATTACHED_unicode) THEN t
  ELSE MatraFrom(MatraRewrite(t, UNATTACHED_unicode[k]), k + 1)

\* for matra in UNATTACHED['unicode']: ...
MatraCleanup(t) == MatraFrom(t, 1)

\* virama RA virama rewritten to a lone virama: the RA is lost
ViramaCollapseDropsRa(t) ==
  replace_string(
    replace_string(
      replace_string(t, <<VIR, VIR, RA>>, <<VIR, RA>>),
      <<VIR, RA, VIR>>, <<VIR>>),
    <<VIR, VIR>>, <<VIR>>)


ViramaCollapse(t) ==
  replace_string(
    replace_string(
      replace_string(t, <<VIR, VIR, RA>>, <<VIR, RA>>),
      <<VIR, RA, VIR>>, <<RA, VIR>>),
    <<VIR, VIR>>, <<VIR>>)

\* virama + ' '  ->  ' '
TrailingVirama(t) == replace_string(t, <<VIR, SP>>, <<SP>>)

FinalPass(t) == Strip(TrailingVirama(t))

----------------------------------------------------------------------------
(* The forward conversion as a state machine: one action per pass.  pc names *)
(* the pass that runs next, text is the buffer, prev the buffer as it was    *)
(* when the last pass started, err whether the call raised.                  *)

Strs(A, n) == UNION {[1..k -> A] : k \in 0..n}

\* placeholder tokens, the codes that emit them, consonants and vowel signs
PlaceholderChars == {"f", "Z", "xc7", KA, RA, II, VIR}
\* Unicode text with separators
UnicodeChars == {SP, TAB, ",", KA, RA, VIR, AA}
\* legacy text
LegacyChars == {"a", "b", "d", "D", "k", "~", "j", SP}

\* the three legacy codes of the composite short-i, and a consonant
CompositeChars == {"xc7", "xaf", "xc9", KA}

Inputs ==
  Strs(PlaceholderChars, MaxLen) \cup Strs(UnicodeChars, MaxLen)
    \cup Strs(LegacyChars, MaxLen - 1) \cup Strs(CompositeChars, MaxLen - 1)

\* every character the model's strings are made of
Chars ==
  PlaceholderChars \cup UnicodeChars \cup LegacyChars \cup Devanagari
    \cup {"&", "-", "a"}

Threads == 1..NThreads

RevIdle ==
  /\ cache = "None"
  /\ tpc = [th \in Threads |-> "idle"]
  /\ targ = [th \in Threads |-> <<>>]
  /\ tlocal = [th \in Threads |-> "None"]
  /\ tbuilder = [th \in Threads |-> FALSE]
  /\ builds = 0
  /\ assigns = 0
  /\ lastCall = [valid |-> FALSE, inp |-> <<>>, out |-> <<>>, built |-> FALSE]

NoResult ==
  [valid |-> FALSE, type |-> "", confidence |-> [num |-> 0, den |-> 1],
   needs_conversion |-> FALSE, script |-> ""]

DetIdle ==
  /\ dtext = <<>>
  /\ dres = NoResult

ConvIdle ==
  /\ craw = <<>>
  /\ cpc = "idle"
  /\ cconv = <<>>
  /\ cres = [valid |-> FALSE, text |-> <<>>, label |-> "", ran |-> FALSE]

MixIdle ==
  /\ tbuf = [th \in Threads |-> <<>>]
  /\ lastPure = [valid |-> FALSE, fn |-> "", arg |-> <<>>, out |-> <<>>]

FwdIdle ==
  /\ inp = <<>>
  /\ pc = "idle"
  /\ text = <<>>
  /\ prev = <<>>
  /\ err = FALSE
  /\ scans = 0

Init ==
  /\ inp \in Inputs
  /\ pc = "spacing"
  /\ text = inp
  /\ prev = inp
  /\ err = FALSE
  /\ scans = 0
  /\ RevIdle
  /\ DetIdle
  /\ ConvIdle
  /\ MixIdle

\* a pass that cannot raise
Step(from, to, result) ==
  /\ pc = from
  /\ pc' = to
  /\ prev' = text
  /\ text' = result
  /\ UNCHANGED <<inp, err, scans>>
  /\ UNCHANGED <<revVars, detVars, convVars, mixVars>>

\* a pass that indexes the buffer: r = [text, err, steps]
StepIndexed(from, to, r) ==
  /\ pc = from
  /\ prev' = text
  /\ scans' = r.steps
  /\ IF r.err
     THEN /\ pc' = "raised"
          /\ err' = TRUE
          /\ text' = text
     ELSE /\ pc' = to
          /\ err' = FALSE
          /\ text' = r.text
  /\ UNCHANGED inp
  /\ UNCHANGED <<revVars, detVars, convVars, mixVars>>

Spacing == Step("spacing", "dash", SpacingCleanup(text))
Dash == StepIndexed("dash", "main", DashPass(text))
Main == Step("main", "special", MainPass(text))
Special == Step("special", "shorti", SpecialRemap(text))
ShortI == Step("shorti", "composite", ShortIPass(text))
Composite == Step("composite", "shortivirama", CompositePass(text))
ShortIVirama == Step("shortivirama", "reph", ShortIViramaPass(text))
Reph == StepIndexed("reph", "matra", RephPass(text))
Matra == Step("matra", "virama", MatraCleanup(text))
Virama == Step("virama", "final", ViramaCollapse(text))
Final == Step("final", "done", FinalPass(text))

Next ==
  \/ Spacing
  \/ Dash
  \/ Main
  \/ Special
  \/ ShortI
  \/ Composite
  \/ ShortIVirama
  \/ Reph
  \/ Matra
  \/ Virama
  \/ Final

Spec == Init /\ [][Next]_vars

\* krutidev_to_unicode(t) as one function: the text returned, "raised" on an error
krutidev_to_unicode(t) ==
  LET d == DashPass(SpacingCleanup(t))
  IN IF d.err THEN "raised"
     ELSE LET r == RephPass(ShortIViramaPass(CompositePass(ShortIPass(
                     SpecialRemap(MainPass(d.text))))))
          IN IF r.err THEN "raised"
             ELSE FinalPass(ViramaCollapse(MatraCleanup(r.text)))

----------------------------------------------------------------------------
(* unicode_to_krutidev and its lazily built cache _UNICODE_TO_KRUTIDEV_MAP *)

\* the filter dropped: every rule of MAIN enters the map
HasDevanagariAlways(u) == TRUE

\* any('\u0900' <= c <= '\u097f' for c in unicode_char)
HasDevanagari(u) == \E i \in 1..Len(u) : u[i] \in Devanagari

\* the membership test always false: a later duplicate is entered again
HasKeyNever(acc, u) == FALSE

\* unicode_char in seen_unicode
HasKey(acc, u) == \E i \in 1..Len(acc) : acc[i][1] = u

\* the loop over MAIN: seen_unicode as (unicode, krutidev) pairs in insertion order
RECURSIVE SeenFrom(_, _)
SeenFrom(k, acc) ==
  IF k > Len(MAIN) THEN acc
  ELSE IF HasDevanagari(MAIN[k][2]) /\ ~HasKey(acc, MAIN[k][2])
       THEN SeenFrom(k + 1, Append(acc, <<MAIN[k][2], MAIN[k][1]>>))
       ELSE SeenFrom(k + 1, acc)

SeenUnicode == SeenFrom(1, <<>>)

KeyLenIs(n, e) == Len(e[1]) = n

RECURSIVE MaxKeyLen(_)
MaxKeyLen(pairs) ==
  IF pairs = <<>> THEN 0 ELSE Max(Len(Head(pairs)[1]), MaxKeyLen(Tail(pairs)))

\* sorted(pairs, key=lambda x: len(x[0]), reverse=True): stable, longest key first
RECURSIVE SortFrom(_, _)
SortFrom(pairs, n) ==
  IF n <= 0 THEN <<>>
  ELSE SelectSeq(pairs, LAMBDA e : KeyLenIs(n, e)) \o SortFrom(pairs, n - 1)

\* the pairs left in the order they were collected
SortSkipped(pairs) == pairs

SortedByKeyLen(pairs) == SortFrom(pairs, MaxKeyLen(pairs))

\* a build that returns after its first entry
build_first_entry_only == SubSeq(SortedByKeyLen(SeenUnicode), 1, 1)

build_unicode_to_krutidev_map == SortedByKeyLen(SeenUnicode)

\* the supplementary table of unicode_to_krutidev
extra ==
  << << <<"DANDA">>, <<"A">> >>,
     << <<"DDANDA">>, <<"A", "A">> >>,
     << <<"D0">>, <<"xe5">> >>,
     << <<"D1">>, <<"xf8">> >>,
     << <<"D2">>, <<"xf9">> >>,
     << <<"D3">>, <<"xfa">> >>,
     << <<"D4">>, <<"xfb">> >>,
     << <<"D5">>, <<"xfc">> >>,
     << <<"D6">>, <<"xfd">> >>,
     << <<"D7">>, <<"xfe">> >>,
     << <<"D8">>, <<"xff">> >>,
     << <<"D9">>, <<"u0152">> >>,
     << <<ANU>>, <<"a">> >>,
     << <<"CANDRA">>, <<"xa1">> >>,
     << <<AA>>, <<"k">> >>,
     << <<SHORT_I>>, <<"f">> >>,
     << <<II>>, <<"h">> >>,
     << <<"U">>, <<"q">> >>,
     << <<"UU">>, <<"w">> >>,
     << <<"RI">>, <<"grave">> >>,
     << <<EE>>, <<"s">> >>,
     << <<"AI">>, <<"S">> >>,
     << <<"O">>, <<"k", "s">> >>,
     << <<"AU">>, <<"k", "S">> >>,
     << <<VIR>>, <<"~">> >> >>

\* for uni, kru in table: text = text.replace(uni, kru)
RECURSIVE ApplyPairs(_, _, _)
ApplyPairs(t, table, k) ==
  IF k > Len(table) THEN t
  ELSE ApplyPairs(replace_string(t, table[k][1], table[k][2]), table, k + 1)

\* the two replacement loops and the return value, given the table read
ApplyReverse(table, t) ==
  ApplyPairs(ApplyPairs(t, table, 1), SortedByKeyLen(extra), 1)

\* the cache after the replacement loops: they only read it
CacheConsumed(c) == <<>>
CacheAfterApply(c) == c

\* Unicode text for the reverse converter: Devanagari, an ASCII letter and the
\* dash (the Unicode side of a rule of MAIN that has no Devanagari)
RevChars == {KA, VIR, RA, AA, "x", "-"}
RevInputs == Strs(RevChars, MaxRevLen)
\* the arguments of the concurrent callers
ConcInputs == {<<KA, VIR>>, <<AA, "x">>}

InitRev ==
  /\ FwdIdle
  /\ RevIdle
  /\ DetIdle
  /\ ConvIdle
  /\ MixIdle

\* a thread enters unicode_to_krutidev(t)
RevCall(th, t) ==
  /\ tpc[th] = "idle"
  /\ tpc' = [tpc EXCEPT ![th] = "check"]
  /\ targ' = [targ EXCEPT ![th] = t]
  /\ tbuilder' = [tbuilder EXCEPT ![th] = FALSE]
  /\ UNCHANGED <<cache, tlocal, builds, assigns, lastCall>>
  /\ UNCHANGED <<fwdVars, detVars, convVars, mixVars>>

\* a test of the global that takes the building branch on every call
CacheUnsetAlways(c) == TRUE

\* _UNICODE_TO_KRUTIDEV_MAP is None
CacheUnset(c) == c = "None"

\* if _UNICODE_TO_KRUTIDEV_MAP is None
RevCheck(th) ==
  /\ tpc[th] = "check"
  /\ tpc' = [tpc EXCEPT ![th] = IF CacheUnset(cache) THEN "build" ELSE "apply"]
  /\ UNCHANGED <<cache, targ, tlocal, tbuilder, builds, assigns, lastCall>>
  /\ UNCHANGED <<fwdVars, detVars, convVars, mixVars>>

\* the call _build_unicode_to_krutidev_map(), its value still local
RevBuild(th) ==
  /\ tpc[th] = "build"
  /\ tpc' = [tpc EXCEPT ![th] = "assign"]
  /\ tlocal' = [tlocal EXCEPT ![th] = build_unicode_to_krutidev_map]
  /\ tbuilder' = [tbuilder EXCEPT ![th] = TRUE]
  /\ builds' = builds + 1
  /\ UNCHANGED <<cache, targ, assigns, lastCall>>
  /\ UNCHANGED <<fwdVars, detVars, convVars, mixVars>>

\* the store to the global
RevAssign(th) ==
  /\ tpc[th] = "assign"
  /\ tpc' = [tpc EXCEPT ![th] = "apply"]
  /\ cache' = tlocal[th]
  /\ tlocal' = [tlocal EXCEPT ![th] = "None"]
  /\ assigns' = assigns + 1
  /\ UNCHANGED <<targ, tbuilder, builds, lastCall>>
  /\ UNCHANGED <<fwdVars, detVars, convVars, mixVars>>

\* the replacement loops over the global and the return
RevApply(th) ==
  /\ tpc[th] = "apply"
  /\ tpc' = [tpc EXCEPT ![th] = "idle"]
  /\ lastCall' = [valid |-> TRUE, inp |-> targ[th],
                  out |-> ApplyReverse(cache, targ[th]), built |-> tbuilder[th]]
  /\ cache' = CacheAfterApply(cache)
  /\ UNCHANGED <<targ, tlocal, tbuilder, builds, assigns>>
  /\ UNCHANGED <<fwdVars, detVars, convVars, mixVars>>

\* callers on several threads
NextRev ==
  \E th \in Threads :
    \/ \E t \in ConcInputs : RevCall(th, t)
    \/ RevCheck(th)
    \/ RevBuild(th)
    \/ RevAssign(th)
    \/ RevApply(th)

SpecRev == InitRev /\ [][NextRev]_vars

\* one caller, one call after the other
NextRevSeq ==
  \/ \E t \in RevInputs : RevCall(1, t)
  \/ RevCheck(1)
  \/ RevBuild(1)
  \/ RevAssign(1)
  \/ RevApply(1)

SpecRevSeq == InitRev /\ [][NextRevSeq]_vars

----------------------------------------------------------------------------
(* detect_encoding of src/email_pipeline_ultimate.py                       *)
(*                                                                         *)
(* Its argument is a sequence of runs [c |-> character, n |-> repetitions] *)
(* standing for the string c1 * n1 + c2 * n2 + ... ; a ratio p / q is the  *)
(* record [num |-> p, den |-> q], and a comparison of ratios is made by    *)
(* cross-multiplication.                                                   *)

NL == "NL"
\* carriage return: whitespace that the count of total_chars keeps
CR == "CR"

\* len(text) < 5
MinLen == 5
\* sample = text[:1000]
SampleLen == 1000

\* longest argument of the model, in runs
MaxRuns == 3
RunLens == {1, 2, 5, 600}

\* 65 <= ord(c) <= 90 or 97 <= ord(c) <= 122
LatinLetters == {"e", "k", "s", "S", "D", "X", "P", "N", "T", "v", "b", "Z"}
\* 128 <= ord(c) < 256
ExtendedAscii == {"xe9"}
\* the characters str.replace removes before total_chars is taken
Separators == {SP, NL, TAB}

krutidev_patterns ==
  << <<"k">>, <<"D", "k">>, <<"[", "k">>, <<"X", "k">>, <<"?", "k">>,
     <<"P", "k">>, <<"N", "k">>, <<"T", "k">>, <<"v", "k">>, <<"b", "Z">>,
     <<"k", "s">>, <<"k", "S">> >>

Rat(p, q) == [num |-> p, den |-> q]

\* len(text)
RECURSIVE RunsLen(_)
RunsLen(t) == IF t = <<>> THEN 0 ELSE Head(t).n + RunsLen(Tail(t))

\* text[:k]
RECURSIVE TakeChars(_, _)
TakeChars(t, k) ==
  IF t = <<>> \/ k <= 0 THEN <<>>
  ELSE IF Head(t).n <= k
       THEN <<Head(t)>> \o TakeChars(Tail(t), k - Head(t).n)
       ELSE <<[c |-> Head(t).c, n |-> k]>>

\* the sample taken whole: no truncation
SampleWhole(t) == t

\* sample = text[:1000]
Sample(t) == TakeChars(t, SampleLen)

\* sum(1 for c in sample if c is in S)
RECURSIVE CountRuns(_, _)
CountRuns(t, S) ==
  IF t = <<>> THEN 0
  ELSE (IF Head(t).c \in S THEN Head(t).n ELSE 0) + CountRuns(Tail(t), S)

\* every character counts, separators included
total_chars_all(sample) == RunsLen(sample)

\* len(sample.replace(' ', '').replace('\n', '').replace('\t', ''))
total_chars(sample) == RunsLen(sample) - CountRuns(sample, Separators)

\* sample.count(p): a pattern of one character occurs once per character, one
\* of two different characters once per boundary between a run of the first
\* and a run of the second
PatternCount(sample, p) ==
  IF Len(p) = 1
  THEN CountRuns(sample, {p[1]})
  ELSE Cardinality({i \in 1..(Len(sample) - 1) :
                       sample[i].c = p[1] /\ sample[i + 1].c = p[2]})

\* sum(sample.count(p) for p in krutidev_patterns)
RECURSIVE PatternSum(_, _)
PatternSum(sample, ps) ==
  IF ps = <<>> THEN 0
  ELSE PatternCount(sample, Head(ps)) + PatternSum(sample, Tail(ps))

krutidev_pattern_count(sample) == PatternSum(sample, krutidev_patterns)

\* always 0.9, whatever the score
LegacyConfidenceFixed(cnt, total) == Rat(9, 10)

\* the score itself, not clamped
LegacyConfidenceRaw(cnt, total) == Rat(10 * cnt, total)

\* confidence = min(0.9, krutidev_score), krutidev_score = cnt / (total / 10)
LegacyConfidence(cnt, total) ==
  IF 100 * cnt < 9 * total THEN Rat(10 * cnt, total) ELSE Rat(9, 10)

Result(ty, conf, conv, scr) ==
  [valid |-> TRUE, type |-> ty, confidence |-> conf,
   needs_conversion |-> conv, script |-> scr]

\* the legacy test made before the Devanagari test
ClassifyLegacyFirst(dev, lat, ext, cnt, total) ==
  IF 20 * cnt > total \/ 10 * ext > total
  THEN Result("krutidev", LegacyConfidence(cnt, total), TRUE, "devanagari")
  ELSE IF 10 * dev > 3 * total
       THEN Result("unicode", Rat(9, 10), FALSE, "devanagari")
       ELSE Result("unknown", Rat(3, 10), FALSE, "unknown")

\* the Latin test made before the legacy test
ClassifyLatinFirst(dev, lat, ext, cnt, total) ==
  IF 10 * dev > 3 * total
  THEN Result("unicode", Rat(9, 10), FALSE, "devanagari")
  ELSE IF 2 * lat > total
       THEN Result("english", Rat(9, 10), FALSE, "latin")
       ELSE IF 20 * cnt > total \/ 10 * ext > total
            THEN Result("krutidev", LegacyConfidence(cnt, total), TRUE,
                        "devanagari")
            ELSE Result("unknown", Rat(3, 10), FALSE, "unknown")

\* the decision chain: devanagari_ratio > 0.3, krutidev_score > 0.5 or
\* extended_ascii_ratio > 0.1, latin_ratio > 0.5, latin_ratio > 0.2 and
\* devanagari_ratio > 0.05
Classify(dev, lat, ext, cnt, total) ==
  IF 10 * dev > 3 * total
  THEN Result("unicode", Rat(9, 10), FALSE, "devanagari")
  ELSE IF 20 * cnt > total \/ 10 * ext > total
       THEN Result("krutidev", LegacyConfidence(cnt, total), TRUE, "devanagari")
       ELSE IF 2 * lat > total
            THEN Result("english", Rat(9, 10), FALSE, "latin")
            ELSE IF 5 * lat > total /\ 20 * dev > total
                 THEN Result("mixed", Rat(7, 10), FALSE, "mixed")
                 ELSE Result("unknown", Rat(3, 10), FALSE, "unknown")

\* only the empty text is too short
TooShortOnlyEmpty(t) == t = <<>>

\* not text or len(text) < 5
TooShort(t) == t = <<>> \/ RunsLen(t) < MinLen

detect_encoding(t) ==
  IF TooShort(t)
  THEN Result("unknown", Rat(0, 1), FALSE, "unknown")
  ELSE LET sample == Sample(t)
           total  == total_chars(sample)
       IN IF total = 0
          THEN Result("empty", Rat(1, 1), FALSE, "none")
          ELSE Classify(CountRuns(sample, Devanagari),
                        CountRuns(sample, LatinLetters),
                        CountRuns(sample, ExtendedAscii),
                        krutidev_pattern_count(sample),
                        total)

\* the characters of the arguments: Devanagari, two Latin letters (k is a
\* legacy pattern, ks another), extended ASCII, whitespace of both kinds,
\* punctuation
DetChars == {KA, "k", "s", "xe9", SP, CR, "."}
Runs == [c : DetChars, n : RunLens]
DetInputs == Strs(Runs, MaxRuns)

InitDet ==
  /\ dtext \in DetInputs
  /\ dres = NoResult
  /\ FwdIdle
  /\ RevIdle
  /\ ConvIdle
  /\ MixIdle

\* one call detect_encoding(dtext)
Detect ==
  /\ ~dres.valid
  /\ dres' = detect_encoding(dtext)
  /\ UNCHANGED <<dtext, fwdVars, revVars, convVars, mixVars>>

NextDet == Detect

SpecDet == InitDet /\ [][NextDet]_vars

----------------------------------------------------------------------------
(* _detect_and_convert_text of src/email_pipeline.py, is_docx = False *)

\* only the first character is looked at
contains_devanagari_first(t) == t # <<>> /\ t[1] \in Devanagari

\* any('\u0900' <= c <= '\u097f' for c in text)
contains_devanagari(t) == \E i \in 1..Len(t) : t[i] \in Devanagari

\* the labels returned; the arrow of the second is written ->
UnicodeHindi == "Unicode Hindi"
KrutidevToUnicode == "Krutidev->Unicode"
English == "English"

InitConv ==
  /\ craw \in Inputs
  /\ cpc = "check"
  /\ cconv = <<>>
  /\ cres = [valid |-> FALSE, text |-> <<>>, label |-> "", ran |-> FALSE]
  /\ FwdIdle
  /\ RevIdle
  /\ DetIdle
  /\ MixIdle

\* if _contains_devanagari(raw_text): return raw_text, "Unicode Hindi"
ConvAlreadyUnicode ==
  /\ cpc = "check"
  /\ contains_devanagari(craw)
  /\ cpc' = "done"
  /\ cres' = [valid |-> TRUE, text |-> craw, label |-> UnicodeHindi,
              ran |-> FALSE]
  /\ UNCHANGED <<craw, cconv, fwdVars, revVars, detVars, mixVars>>

\* converted = krutidev_to_unicode(raw_text); an error leaves the function
ConvConvert ==
  /\ cpc = "check"
  /\ ~contains_devanagari(craw)
  /\ LET r == krutidev_to_unicode(craw)
     IN IF r = "raised"
        THEN cpc' = "raised" /\ cconv' = cconv
        ELSE cpc' = "verify" /\ cconv' = r
  /\ UNCHANGED <<craw, cres, fwdVars, revVars, detVars, mixVars>>

\* if _contains_devanagari(converted): return converted, "Krutidev->Unicode"
ConvReturnConverted ==
  /\ cpc = "verify"
  /\ contains_devanagari(cconv)
  /\ cpc' = "done"
  /\ cres' = [valid |-> TRUE, text |-> cconv, label |-> KrutidevToUnicode,
              ran |-> TRUE]
  /\ UNCHANGED <<craw, cconv, fwdVars, revVars, detVars, mixVars>>

\* return raw_text, "English"
ConvReturnEnglish ==
  /\ cpc = "verify"
  /\ ~contains_devanagari(cconv)
  /\ cpc' = "done"
  /\ cres' = [valid |-> TRUE, text |-> craw, label |-> English, ran |-> TRUE]
  /\ UNCHANGED <<craw, cconv, fwdVars, revVars, detVars, mixVars>>

NextConv ==
  \/ ConvAlreadyUnicode
  \/ ConvConvert
  \/ ConvReturnConverted
  \/ ConvReturnEnglish

SpecConv == InitConv /\ [][NextConv]_vars

----------------------------------------------------------------------------
(* Callers of the three functions on several threads.  A call of           *)
(* krutidev_to_unicode works on its local variable text, in three steps;   *)
(* a call of detect_encoding reads its argument only.                      *)

\* the arguments of the concurrent callers of the three functions
MixFwdInputs == {<<"f", "d", "Z">>}
MixRevInputs == {<<KA, VIR>>}
MixDetInputs == {<<[c |-> "k", n |-> 5]>>}

\* one buffer for all callers: every thread reads the buffer of thread 1
SharedBuffer(th) == tbuf[1]

\* the local variable text of the call made by thread th
LocalBuffer(th) == tbuf[th]

Returned(f, a, o) == [valid |-> TRUE, fn |-> f, arg |-> a, out |-> o]

\* a thread enters krutidev_to_unicode(t)
FwdCall(th, t) ==
  /\ tpc[th] = "idle"
  /\ tpc' = [tpc EXCEPT ![th] = "fwdhead"]
  /\ targ' = [targ EXCEPT ![th] = t]
  /\ tbuf' = [tbuf EXCEPT ![th] = t]
  /\ UNCHANGED <<cache, tlocal, tbuilder, builds, assigns, lastCall, lastPure>>
  /\ UNCHANGED <<fwdVars, detVars, convVars>>

\* spacing cleanup to the composite short-i pass
FwdHead(th) ==
  /\ tpc[th] = "fwdhead"
  /\ LET d == DashPass(SpacingCleanup(LocalBuffer(th)))
     IN IF d.err
        THEN /\ tpc' = [tpc EXCEPT ![th] = "raised"]
             /\ tbuf' = tbuf
        ELSE /\ tpc' = [tpc EXCEPT ![th] = "fwdmid"]
             /\ tbuf' = [tbuf EXCEPT ![th] =
                  CompositePass(ShortIPass(SpecialRemap(MainPass(d.text))))]
  /\ UNCHANGED <<cache, targ, tlocal, tbuilder, builds, assigns, lastCall,
                 lastPure>>
  /\ UNCHANGED <<fwdVars, detVars, convVars>>

\* the long-i remap to the reph pass
FwdMid(th) ==
  /\ tpc[th] = "fwdmid"
  /\ LET r == RephPass(ShortIViramaPass(LocalBuffer(th)))
     IN IF r.err
        THEN /\ tpc' = [tpc EXCEPT ![th] = "raised"]
             /\ tbuf' = tbuf
        ELSE /\ tpc' = [tpc EXCEPT ![th] = "fwdtail"]
             /\ tbuf' = [tbuf EXCEPT ![th] = r.text]
  /\ UNCHANGED <<cache, targ, tlocal, tbuilder, builds, assigns, lastCall,
                 lastPure>>
  /\ UNCHANGED <<fwdVars, detVars, convVars>>

\* the cleanup passes and the return
FwdTail(th) ==
  /\ tpc[th] = "fwdtail"
  /\ tpc' = [tpc EXCEPT ![th] = "idle"]
  /\ lastPure' = Returned("krutidev_to_unicode", targ[th],
                   FinalPass(ViramaCollapse(MatraCleanup(LocalBuffer(th)))))
  /\ tbuf' = [tbuf EXCEPT ![th] = <<>>]
  /\ UNCHANGED <<cache, targ, tlocal, tbuilder, builds, assigns, lastCall>>
  /\ UNCHANGED <<fwdVars, detVars, convVars>>

\* a thread enters detect_encoding(d)
DetCall(th, d) ==
  /\ tpc[th] = "idle"
  /\ tpc' = [tpc EXCEPT ![th] = "detect"]
  /\ targ' = [targ EXCEPT ![th] = d]
  /\ UNCHANGED <<cache, tlocal, tbuilder, builds, assigns, lastCall>>
  /\ UNCHANGED <<fwdVars, detVars, convVars, mixVars>>

\* the body of detect_encoding and the return
DetReturn(th) ==
  /\ tpc[th] = "detect"
  /\ tpc' = [tpc EXCEPT ![th] = "idle"]
  /\ lastPure' = Returned("detect_encoding", targ[th], detect_encoding(targ[th]))
  /\ UNCHANGED <<cache, targ, tlocal, tbuilder, builds, assigns, lastCall, tbuf>>
  /\ UNCHANGED <<fwdVars, detVars, convVars>>

NextMix ==
  \E th \in Threads :
    \/ \E t \in MixRevInputs : RevCall(th, t)
    \/ RevCheck(th)
    \/ RevBuild(th)
    \/ RevAssign(th)
    \/ RevApply(th)
    \/ \E t \in MixFwdInputs : FwdCall(th, t)
    \/ FwdHead(th)
    \/ FwdMid(th)
    \/ FwdTail(th)
    \/ \E d \in MixDetInputs : DetCall(th, d)
    \/ DetReturn(th)

SpecMix == InitRev /\ [][NextMix]_vars

\* the arguments of krutidev_to_unicode and of unicode_to_krutidev in the run
\* of one caller
SeqFwdInputs == {<<"f", "d", "Z">>, <<"D", "k">>}
SeqRevInputs == {<<KA, VIR>>, <<AA, "x">>, <<"x">>}

\* one caller of krutidev_to_unicode and unicode_to_krutidev, one call after
\* the other
NextSeqBoth ==
  \/ \E t \in SeqRevInputs : RevCall(1, t)
  \/ RevCheck(1)
  \/ RevBuild(1)
  \/ RevAssign(1)
  \/ RevApply(1)
  \/ \E t \in SeqFwdInputs : FwdCall(1, t)
  \/ FwdHead(1)
  \/ FwdMid(1)
  \/ FwdTail(1)

SpecSeqBoth == InitRev /\ [][NextSeqBoth]_vars

----------------------------------------------------------------------------
(* Claims about krutidev_to_unicode *)

Contains(s, c) == \E i \in 1..Len(s) : s[i] = c
CountIn(s, S) == Cardinality({i \in 1..Len(s) : s[i] \in S})
AllIn(s, S) == \A i \in 1..Len(s) : s[i] \in S

\* C1: the conversion is total: no pass indexes outside the buffer or raises,
\* every pass (the leftward reph scan included) ends and hands over to the
\* next one until the function returns.
C1_Total ==
  /\ ~err
  /\ pc # "raised"
  /\ pc \in {"spacing", "dash", "main", "special", "shorti", "composite",
             "shortivirama", "reph", "matra", "virama", "final", "done"}
  /\ pc = "matra" => scans <= Len(prev)
  /\ pc = "done" => AllIn(text, Chars)

\* the reph scan ran back to the start of the buffer and the call went on
C1_Witness ==
  /\ pc = "done"
  /\ scans >= 1
  /\ Len(inp) >= 2
  /\ inp[1] \in VOWELS_unicode
  /\ inp[2] = "Z"

\* C2: the output holds no residual short-i placeholder token 'f'.
C2_NoResidualF == pc = "done" => ~Contains(text, "f")

\* C3: the output holds no residual reph placeholder token 'Z'.
C3_NoResidualZ == pc = "done" => ~Contains(text, "Z")

\* C4: in the output no virama is immediately followed by a whitespace
\* character.
C4_NoViramaBeforeWhitespace ==
  pc = "done" =>
    \A i \in 1..(Len(text) - 1) : ~(text[i] = VIR /\ text[i + 1] \in Whitespace)

\* C5 as stated: for an input of Devanagari-block characters only, the output
\* holds at least as many Devanagari-block characters as the input.
C5_DevanagariCountKept ==
  (pc = "done" /\ AllIn(inp, Devanagari)) =>
    CountIn(text, Devanagari) >= CountIn(inp, Devanagari)

\* C5 amended: for an input of Devanagari-block characters only, the output
\* holds at least as many Devanagari-block characters other than the virama
\* as the input: the cleanup passes remove viramas and nothing else.
C5_NonViramaCountKept ==
  (pc = "done" /\ AllIn(inp, Devanagari)) =>
    CountIn(text, Devanagari \ {VIR}) >= CountIn(inp, Devanagari \ {VIR})

\* a Devanagari-only input from which the cleanup passes removed a virama
C5_Witness ==
  /\ pc = "done"
  /\ inp # <<>>
  /\ AllIn(inp, Devanagari)
  /\ CountIn(text, Devanagari) < CountIn(inp, Devanagari)
  /\ CountIn(inp, Devanagari \ {VIR}) > 0

IsShortIFixture(s) ==
  /\ Len(s) = 3
  /\ s[1] \in CONSONANTS_unicode
  /\ s[2] = "f"
  /\ s[3] \in CONSONANTS_unicode

\* C6 as stated: consonant + 'f' + consonant2 leaves the short-i pass as
\* consonant + short-i mark + consonant2.
C6_MarkAfterFirst ==
  (pc = "composite" /\ IsShortIFixture(prev)) =>
    text = <<prev[1], SHORT_I, prev[3]>>

\* C6 amended: consonant + 'f' + consonant2 leaves the short-i pass as
\* consonant + consonant2 + short-i mark: the mark goes after the character
\* that followed the token.
C6_MarkAfterSecond ==
  (pc = "composite" /\ IsShortIFixture(prev)) =>
    text = <<prev[1], prev[3], SHORT_I>>

C6_Witness ==
  /\ pc = "composite"
  /\ prev = <<KA, "f", RA>>
  /\ text = <<KA, RA, SHORT_I>>

IsRephFixture(s) ==
  /\ Len(s) = 4
  /\ s[1] \in CONSONANTS_unicode
  /\ s[2] \in VOWELS_unicode
  /\ s[3] \in CONSONANTS_unicode
  /\ s[4] = "Z"

\* C7 as stated: consonant1 + vowel sign + consonant2 + 'Z' leaves the reph
\* pass with RA + virama immediately before consonant1.
C7_RephBeforeFirst ==
  (pc = "matra" /\ IsRephFixture(prev)) =>
    text = <<RA, VIR, prev[1], prev[2], prev[3]>>

\* C7 amended: consonant1 + vowel sign + consonant2 + 'Z' leaves the reph
\* pass with RA + virama directly before consonant2: the character before 'Z'
\* is no vowel sign, so nothing is skipped.
C7_RephBeforeSecond ==
  (pc = "matra" /\ IsRephFixture(prev)) =>
    text = <<prev[1], prev[2], RA, VIR, prev[3]>>

C7_Witness ==
  /\ pc = "matra"
  /\ prev = <<KA, II, RA, "Z">>
  /\ text = <<KA, II, RA, VIR, RA>>

\* C8: converting the output again leaves it unchanged.
C8_Idempotent == pc = "done" => krutidev_to_unicode(text) = text

----------------------------------------------------------------------------
(* Claims about unicode_to_krutidev *)

\* C9: a call that returns right after a call on the same text returns the
\* same output, whichever of the two built the cache.
C9_Deterministic ==
  [][(/\ tpc[1] = "apply"
      /\ tpc'[1] = "idle"
      /\ lastCall.valid
      /\ lastCall.inp = targ[1])
     => lastCall'.out = lastCall.out]_vars

\* the second of two calls on the same text is about to return; the first
\* built the cache and rewrote the text
C9_Witness ==
  /\ tpc[1] = "apply"
  /\ lastCall.valid
  /\ lastCall.inp = targ[1]
  /\ lastCall.built
  /\ ~tbuilder[1]
  /\ lastCall.out # lastCall.inp
  /\ Len(lastCall.inp) = 2

\* C10: the reverse map is built at most once and the cache assigned at most
\* once, in every interleaving.
C10_BuiltOnce == builds <= 1 /\ assigns <= 1


NotDevanagari(c) == c \notin Devanagari

\* the characters of s outside the Devanagari block, in order
NonDevanagariOf(s) == SelectSeq(s, NotDevanagari)

\* a is a subsequence of b
RECURSIVE IsSubseq(_, _)
IsSubseq(a, b) ==
  IF a = <<>> THEN TRUE
  ELSE IF b = <<>> THEN FALSE
       ELSE IF Head(a) = Head(b) THEN IsSubseq(Tail(a), Tail(b))
            ELSE IsSubseq(a, Tail(b))

\* C11: the characters of the input outside the Devanagari block appear
\* unchanged and in the same order in the output; an input without any
\* Devanagari character is returned identical.
C11_NonDevanagariKept ==
  lastCall.valid =>
    /\ IsSubseq(NonDevanagariOf(lastCall.inp), lastCall.out)
    /\ CountIn(lastCall.inp, Devanagari) = 0 => lastCall.out = lastCall.inp

\* a call on text that mixes a dash, a letter or both with Devanagari returned
C11_Witness ==
  /\ lastCall.valid
  /\ lastCall.inp = <<"-", KA>>
  /\ lastCall.out = <<"-", "d">>

\* the Unicode sides of MAIN that hold a Devanagari character
ReverseKeys ==
  {MAIN[k][2] : k \in {j \in 1..Len(MAIN) : CountIn(MAIN[j][2], Devanagari) > 0}}

\* the first rule of MAIN whose Unicode side is u
FirstRule(u) ==
  CHOOSE k \in 1..Len(MAIN) :
    /\ MAIN[k][2] = u
    /\ \A j \in 1..(k - 1) : MAIN[j][2] # u

\* C12: the reverse map has exactly one entry per distinct Unicode side of
\* MAIN that holds a Devanagari character, its legacy value is that of the
\* first such rule, and rules without Devanagari contribute nothing.
C12_ReverseMapContent ==
  cache # "None" =>
    /\ {cache[i][1] : i \in 1..Len(cache)} = ReverseKeys
    /\ Len(cache) = Cardinality(ReverseKeys)
    /\ \A i \in 1..Len(cache) : cache[i][2] = MAIN[FirstRule(cache[i][1])][1]

\* the map is built and stored; MAIN has a duplicate Unicode side (two rules
\* give virama + RA) and a rule without Devanagari
C12_Witness ==
  /\ cache # "None"
  /\ assigns = 1
  /\ Len(cache) < Len(MAIN) - 1
  /\ \E i \in 1..Len(cache) : cache[i] = << <<VIR, RA>>, <<"~", "j">> >>

----------------------------------------------------------------------------
(* Claims about detect_encoding *)

\* whitespace, the carriage return included
AllWhitespace == {SP, NL, TAB, CR}
AsciiPunctuation == {".", "[", "?"}

\* the first 1000 characters of the argument
First1000 == TakeChars(dtext, SampleLen)

IsUnicode09 ==
  /\ dres.type = "unicode"
  /\ dres.confidence.num * 10 = 9 * dres.confidence.den
  /\ ~dres.needs_conversion

IsEnglish09 ==
  /\ dres.type = "english"
  /\ dres.confidence.num * 10 = 9 * dres.confidence.den

\* C13 as stated: a text of at least 5 characters whose Devanagari characters
\* are more than 30% of the non-whitespace characters of its first 1000
\* characters is classified unicode, confidence 0.9, no conversion.
C13_UnicodeOverNonWhitespace ==
  (/\ dres.valid
   /\ RunsLen(dtext) >= MinLen
   /\ 10 * CountRuns(First1000, Devanagari)
        > 3 * (RunsLen(First1000) - CountRuns(First1000, AllWhitespace)))
  => IsUnicode09

\* C13 amended: the same with the ratio taken over the characters of the
\* first 1000 other than space, newline and tab, whatever the legacy score
\* and the extended-ASCII ratio.
C13_UnicodeOverCounted ==
  (/\ dres.valid
   /\ RunsLen(dtext) >= MinLen
   /\ 10 * CountRuns(First1000, Devanagari)
        > 3 * (RunsLen(First1000) - CountRuns(First1000, Separators)))
  => IsUnicode09

\* a text longer than the sample, more than a tenth of it extended ASCII,
\* classified unicode on the Devanagari share of its first 1000 characters
C13_Witness ==
  /\ dres.valid
  /\ dres.type = "unicode"
  /\ RunsLen(dtext) > SampleLen
  /\ 10 * CountRuns(First1000, ExtendedAscii) > RunsLen(First1000)
  /\ CountRuns(First1000, Devanagari) < CountRuns(dtext, Devanagari)

\* only Latin letters, whitespace and ASCII punctuation, at least 5 characters
PureEnglish ==
  /\ RunsLen(dtext) >= MinLen
  /\ \A i \in 1..Len(dtext) :
       dtext[i].c \in LatinLetters \cup AllWhitespace \cup AsciiPunctuation

\* C14 as stated: every pure-English text is classified english, confidence
\* 0.9, whatever letters it contains.
C14_EnglishAlways == (dres.valid /\ PureEnglish) => IsEnglish09

\* C14 amended: a pure-English text is classified english, confidence 0.9,
\* exactly when, over its first 1000 characters other than space, newline and
\* tab, the legacy score is at most 0.5 and the Latin letters are more than
\* half; with a legacy score above 0.5 it is classified krutidev.
C14_EnglishUnlessLegacy ==
  (dres.valid /\ PureEnglish) =>
    LET counted == RunsLen(First1000) - CountRuns(First1000, Separators)
        cnt     == krutidev_pattern_count(First1000)
        lat     == CountRuns(First1000, LatinLetters)
    IN /\ IsEnglish09 <=> (20 * cnt <= counted /\ 2 * lat > counted)
       /\ 20 * cnt > counted => dres.type = "krutidev"

\* a pure-English text with the letter k in it, classified english
C14_Witness ==
  /\ dres.valid
  /\ PureEnglish
  /\ dres.type = "english"
  /\ CountRuns(dtext, {"k"}) > 0

\* C15: a text shorter than 5 characters is classified unknown, confidence
\* 0.0, no conversion, whatever its content.
C15_ShortIsUnknown ==
  (dres.valid /\ RunsLen(dtext) < MinLen) =>
    /\ dres.type = "unknown"
    /\ dres.confidence.num = 0
    /\ ~dres.needs_conversion

\* a short text made of Devanagari only
C15_Witness ==
  /\ dres.valid
  /\ dtext = <<[c |-> KA, n |-> 2], [c |-> KA, n |-> 2]>>
  /\ dres.type = "unknown"

IsEmpty10 ==
  /\ dres.type = "empty"
  /\ dres.confidence.num = dres.confidence.den

C17_ResultInRange ==
  dres.valid =>
    /\ dres.confidence.den > 0
    /\ 0 <= dres.confidence.num
    /\ dres.confidence.num <= dres.confidence.den
    /\ dres.type \in {"unicode", "krutidev", "english", "mixed", "empty",
                      "unknown"}

\* a legacy score above 1.0, clamped to 0.9
C17_Witness ==
  /\ dres.valid
  /\ dres.type = "krutidev"
  /\ 10 * krutidev_pattern_count(First1000) > RunsLen(First1000)
  /\ dres.confidence = Rat(9, 10)

----------------------------------------------------------------------------
(* Claims about _detect_and_convert_text *)

\* C18: raw text with a Devanagari character is returned unchanged, labelled
\* Unicode Hindi, and the converter is not run; otherwise the converted text
\* is returned, labelled Krutidev->Unicode, when it has a Devanagari
\* character; otherwise the raw text, labelled English. So the returned text
\* has a Devanagari character exactly when the label is not English.
C18_ConvertThenVerify ==
  cres.valid =>
    LET rawDev == CountIn(craw, Devanagari) > 0
        conv   == krutidev_to_unicode(craw)
    IN /\ rawDev =>
            cres.text = craw /\ cres.label = UnicodeHindi /\ ~cres.ran
       /\ (~rawDev /\ CountIn(conv, Devanagari) > 0) =>
            cres.text = conv /\ cres.label = KrutidevToUnicode
       /\ (~rawDev /\ CountIn(conv, Devanagari) = 0) =>
            cres.text = craw /\ cres.label = English
       /\ CountIn(cres.text, Devanagari) > 0 <=> cres.label # English

\* legacy text converted and returned
C18_Witness ==
  /\ cres.valid
  /\ craw = <<"d", "k">>
  /\ cres.text = <<KA, AA>>
  /\ cres.label = KrutidevToUnicode
  /\ cres.ran

----------------------------------------------------------------------------
(* Claims about the ambiguous-dash pass *)

\* one simultaneous substitution over s: the code at position i becomes '&'
\* when i is not the last position and s[i + 1] is neither a legacy consonant
\* nor an unattached legacy vowel sign
DashSimultaneous(s) ==
  [i \in 1..Len(s) |->
     IF /\ s[i] \in {"a", "b"}
        /\ i < Len(s)
        /\ s[i + 1] \notin (CONSONANTS_krutidev \cup UNATTACHED_krutidev)
     THEN "&"
     ELSE s[i]]

\* C20: the dash pass equals one simultaneous substitution over the buffer
\* as it was when the pass started; every other character and the length of
\* the buffer are unchanged, also with several or adjacent ambiguous codes.
C20_DashIsSimultaneous ==
  pc = "main" =>
    /\ ~err
    /\ text = DashSimultaneous(prev)
    /\ Len(text) = Len(prev)

\* three adjacent codes: the first kept for the code that follows it, the
\* second rewritten, the last kept
C20_Witness ==
  /\ pc = "main"
  /\ prev = <<"b", "a", "b">>
  /\ text = <<"b", "&", "b">>

----------------------------------------------------------------------------
(* Claims about the callers on several threads *)

PurePcs == {"fwdhead", "fwdmid", "fwdtail", "detect"}

\* a step of a call of krutidev_to_unicode or detect_encoding
PureStep ==
  \E th \in Threads :
    /\ tpc'[th] # tpc[th]
    /\ tpc[th] \in PurePcs \/ tpc'[th] \in PurePcs

\* C19: a call of detect_encoding or krutidev_to_unicode leaves the cached
\* reverse map unchanged, and what it returns is the value of the function on
\* its argument, whatever the other threads do in between.
C19_PureCallsStateless ==
  [][PureStep =>
       /\ cache' = cache
       /\ tlocal' = tlocal
       /\ builds' = builds /\ assigns' = assigns
       /\ lastCall' = lastCall
       /\ (lastPure'.valid /\ lastPure'.fn = "krutidev_to_unicode") =>
            lastPure'.out = krutidev_to_unicode(lastPure'.arg)
       /\ (lastPure'.valid /\ lastPure'.fn = "detect_encoding") =>
            lastPure'.out = detect_encoding(lastPure'.arg)]_vars

\* a forward call returned while the map was stored and another thread was
\* in the replacement loops of the reverse converter
C19_Witness ==
  /\ lastPure.valid
  /\ lastPure.fn = "krutidev_to_unicode"
  /\ assigns >= 1
  /\ \E th \in Threads : tpc[th] = "apply"
  /\ \E th \in Threads : tpc[th] = "detect"

----------------------------------------------------------------------------
(* Claims about the main glyph substitution *)

\* the buffer with the origin of every character: o is the rule that wrote
\* it (0 for a character of the input), src the input positions it replaces
InitCells(s) == [i \in 1..Len(s) |-> [c |-> s[i], o |-> 0, src |-> {i}]]

CellsMatch(cells, f) ==
  /\ Len(f) <= Len(cells)
  /\ \A j \in 1..Len(f) : cells[j].c = f[j]

\* rule k as one global literal replace, left to right; rematch tells that
\* the rule matched a character written by an earlier rule
RECURSIVE RuleOnCells(_, _)
RuleOnCells(cells, k) ==
  IF cells = <<>> THEN [cells |-> <<>>, rematch |-> FALSE]
  ELSE IF CellsMatch(cells, MAIN[k][1])
       THEN LET m    == Len(MAIN[k][1])
                srcs == UNION {cells[j].src : j \in 1..m}
                rest == RuleOnCells(SubSeq(cells, m + 1, Len(cells)), k)
            IN [cells |-> [j \in 1..Len(MAIN[k][2]) |->
                             [c |-> MAIN[k][2][j], o |-> k, src |-> srcs]]
                          \o rest.cells,
                rematch |-> rest.rematch \/ \E j \in 1..m : cells[j].o # 0]
       ELSE LET rest == RuleOnCells(Tail(cells), k)
            IN [cells |-> <<Head(cells)>> \o rest.cells,
                rematch |-> rest.rematch]

\* every rule, one after the other, in table order
RECURSIVE TableOnCells(_, _)
TableOnCells(st, k) ==
  IF k > Len(MAIN) THEN st
  ELSE LET r == RuleOnCells(st.cells, k)
       IN TableOnCells([cells |-> r.cells, rematch |-> st.rematch \/ r.rematch],
                       k + 1)

\* the rule that consumed input position p, 0 when none did
Owner(cells, p) ==
  CHOOSE r \in 0..Len(MAIN) :
    \E i \in 1..Len(cells) : p \in cells[i].src /\ cells[i].o = r

\* the input positions of an occurrence of rule k's legacy side at i
Span(k, i) == i..(i + Len(MAIN[k][1]) - 1)

\* C21: the main substitution applies the rules of MAIN one at a time in
\* table order, each over the whole buffer; where the legacy sides of two
\* rules overlap on the same input characters, those characters are consumed
\* by the earlier rule (or one before it) and the later rule does not fire
\* on them.
C21_TableOrderPrecedence ==
  pc = "special" =>
    LET r == TableOnCells([cells |-> InitCells(prev), rematch |-> FALSE], 1)
    IN /\ text = [i \in 1..Len(r.cells) |-> r.cells[i].c]
       /\ ~r.rematch
       /\ \A k \in 1..Len(MAIN), k2 \in 1..Len(MAIN) :
            \A i \in 1..Len(prev), i2 \in 1..Len(prev) :
              (/\ k < k2
               /\ StartsWithAt(prev, i, MAIN[k][1])
               /\ StartsWithAt(prev, i2, MAIN[k2][1]))
              => \A p \in Span(k, i) \cap Span(k2, i2) :
                   Owner(r.cells, p) \in 1..k

\* 'Dk' is consumed by the rule 'Dk' -> KA, which stands before 'D' and 'k'
C21_Witness ==
  /\ pc = "special"
  /\ prev = <<"D", "k", "D">>
  /\ text = <<KA, KA, VIR>>

----------------------------------------------------------------------------
(* Claims about the short-i passes *)

\* the left-to-right scan: tok followed by one character C becomes C + mark,
\* tok at the end of the buffer becomes mark
RECURSIVE ScanMove(_, _, _)
ScanMove(s, tok, mark) ==
  IF s = <<>> THEN <<>>
  ELSE IF StartsWithAt(s, 1, tok)
       THEN IF Len(s) = Len(tok) THEN mark
            ELSE <<s[Len(tok) + 1]>> \o mark
                   \o ScanMove(SubSeq(s, Len(tok) + 2, Len(s)), tok, mark)
       ELSE <<Head(s)>> \o ScanMove(Tail(s), tok, mark)

\* no token f is directly followed by another
NoAdjacentF(s) == \A i \in 1..(Len(s) - 1) : ~(s[i] = "f" /\ s[i + 1] = "f")

\* what the short-i pass does where no two tokens are adjacent
C22_SeparateTokensHandled ==
  (pc = "composite" /\ NoAdjacentF(prev)) =>
    text = ScanMove(prev, <<"f">>, <<SHORT_I>>)

\* C22: the short-i pass handles every occurrence of the token f: f followed
\* by a character C becomes C + short-i mark, f at the end of the buffer
\* becomes the mark alone, so no f is left after the pass.
C22_EveryTokenHandled ==
  pc = "composite" =>
    /\ ~Contains(text, "f")
    /\ NoAdjacentF(prev) => text = ScanMove(prev, <<"f">>, <<SHORT_I>>)


CompositeCodes == {"xc7", "xaf", "xc9"}

\* the buffer with every composite code written as its token
RECURSIVE ExpandComposite(_)
ExpandComposite(s) ==
  IF s = <<>> THEN <<>>
  ELSE (IF Head(s) \in {"xc7", "xaf"} THEN <<"f", "a">>
        ELSE IF Head(s) = "xc9" THEN <<RA, VIR, "f", "a">>
        ELSE <<Head(s)>>) \o ExpandComposite(Tail(s))

\* no composite code is directly followed by a code whose token starts the
\* next character
NoAdjacentComposite(s) ==
  \A i \in 1..(Len(s) - 1) :
    ~(s[i] \in CompositeCodes /\ s[i + 1] \in {"xc7", "xaf"})

\* what the composite pass does where no two tokens are adjacent
C23_SeparateCompositeHandled ==
  (pc = "shortivirama" /\ ~Contains(prev, "f") /\ NoAdjacentComposite(prev)) =>
    text = ScanMove(ExpandComposite(prev), <<"f", "a">>, <<SHORT_I, ANU>>)

\* C23: the composite codes are still codes when the plain short-i pass has
\* finished, so the plain rule never rewrites a composite token; after the
\* composite pass each token followed by a character C has become
\* C + short-i mark + anusvara, and no 'f' or 'a' of a token is left.
C23_CompositeAfterPlain ==
  /\ pc \in {"spacing", "dash", "main", "special", "shorti", "composite"} =>
       /\ CountIn(text, CompositeCodes) = CountIn(inp, CompositeCodes)
       /\ ~Contains(text, "a") \/ Contains(inp, "a")
  /\ (pc = "shortivirama" /\ ~Contains(prev, "f")) =>
       /\ ~Contains(text, "f")
       /\ ~Contains(text, "a")
       /\ NoAdjacentComposite(prev) =>
            text = ScanMove(ExpandComposite(prev), <<"f", "a">>,
                            <<SHORT_I, ANU>>)

----------------------------------------------------------------------------
(* Claims about the reph pass *)

\* a virama directly before Z is absorbed into it
AbsorbedIntoZ(s) ==
  LET keep == {i \in 1..Len(s) : ~(s[i] = VIR /\ i < Len(s) /\ s[i + 1] = "Z")}
      nth(k) == CHOOSE i \in keep : Cardinality({j \in keep : j < i}) = k - 1
  IN [k \in 1..Cardinality(keep) |-> s[nth(k)]]

\* the buffer b with its one Z at position z deleted and RA + virama put
\* before position j
RephAt(b, z, j) ==
  SubSeq(b, 1, j - 1) \o <<RA, VIR>> \o SubSeq(b, j, z - 1)
    \o SubSeq(b, z + 1, Len(b))

\* one Z in the buffer, with a character that is not a vowel sign on its left
SingleRephCase(b) ==
  /\ CountIn(b, {"Z"}) = 1
  /\ \E z \in 1..Len(b) :
       b[z] = "Z" /\ \E j \in 1..(z - 1) : b[j] \notin VOWELS_unicode

\* the placement the pass must make in that case: before the nearest
\* character on the left of Z that is not a vowel sign
SingleRephPlaced(b, t) ==
  \E z \in 1..Len(b) :
    /\ b[z] = "Z"
    /\ \E j \in 1..(z - 1) :
         /\ b[j] \notin VOWELS_unicode
         /\ \A m \in (j + 1)..(z - 1) : b[m] \in VOWELS_unicode
         /\ t = RephAt(b, z, j)

\* what the reph pass does on a buffer with one Z
C24_SingleRephPlaced ==
  (pc = "matra" /\ SingleRephCase(AbsorbedIntoZ(prev))) =>
    SingleRephPlaced(AbsorbedIntoZ(prev), text)

\* C24: after the reph pass every Z is deleted and replaced by exactly one
\* RA + virama, put immediately before the first character that is not a
\* vowel sign on the left of the Z, a virama directly before Z being absorbed
\* first; the characters in between keep their order.
C24_EveryRephPlaced ==
  pc = "matra" =>
    LET b == AbsorbedIntoZ(prev)
    IN /\ ~Contains(text, "Z")
       /\ CountIn(text, {RA}) = CountIn(b, {RA}) + CountIn(b, {"Z"})
       /\ SingleRephCase(b) => SingleRephPlaced(b, text)

----------------------------------------------------------------------------
(* Claims about the cleanup passes *)

\* C25: in the text returned no Unicode vowel sign is directly preceded by a
\* space, a comma or a virama.
C25_NoSeparatorBeforeVowelSign ==
  pc = "done" =>
    \A i \in 2..Len(text) :
      text[i] \in VOWELS_unicode => text[i - 1] \notin {SP, ",", VIR}

\* C26: the text returned has no two adjacent viramas.
C26_NoDoubledVirama ==
  pc = "done" =>
    \A i \in 1..(Len(text) - 1) : ~(text[i] = VIR /\ text[i + 1] = VIR)

----------------------------------------------------------------------------
(* Claims about the legacy branch of detect_encoding *)

\* C27: with a Devanagari ratio not above 0.3 and a legacy score above 0.5 or
\* an extended-ASCII ratio above 0.1, the result is krutidev, its confidence
\* min(0.9, legacy score), needs_conversion true; needs_conversion is true
\* for no other type.
C27_LegacyBranch ==
  dres.valid =>
    LET total == RunsLen(First1000) - CountRuns(First1000, Separators)
        dev   == CountRuns(First1000, Devanagari)
        ext   == CountRuns(First1000, ExtendedAscii)
        cnt   == krutidev_pattern_count(First1000)
    IN /\ (/\ RunsLen(dtext) >= MinLen
           /\ total > 0
           /\ 10 * dev <= 3 * total
           /\ 20 * cnt > total \/ 10 * ext > total)
          => /\ dres.type = "krutidev"
             /\ dres.needs_conversion
             /\ 100 * cnt >= 9 * total =>
                  10 * dres.confidence.num = 9 * dres.confidence.den
             /\ 100 * cnt < 9 * total =>
                  total * dres.confidence.num = 10 * cnt * dres.confidence.den
       /\ dres.needs_conversion => dres.type = "krutidev"

\* a text selected by its extended-ASCII ratio alone: krutidev, confidence 0.0
C27_Witness ==
  /\ dres.valid
  /\ dres.type = "krutidev"
  /\ dres.needs_conversion
  /\ krutidev_pattern_count(First1000) = 0
  /\ dres.confidence.num = 0

----------------------------------------------------------------------------
(* Claims about the reverse map *)

CacheStored == cache' # cache

\* C29: with one caller and any sequence of calls of krutidev_to_unicode and
\* unicode_to_krutidev, the cache is unset until the first call of
\* unicode_to_krutidev, is built and stored during that call, and is then never
\* rebuilt, stored again or changed: every later call reads the same table.
C29_CacheLifecycle ==
  /\ [](cache = "None" <=> assigns = 0)
  /\ [](builds <= 1 /\ assigns <= 1)
  /\ [](lastCall.valid =>
          /\ cache # "None"
          /\ lastCall.out = ApplyReverse(cache, lastCall.inp))
  /\ [][/\ CacheStored =>
             /\ cache = "None"
             /\ tpc[1] = "assign"
             /\ tbuilder[1]
             /\ builds = 1
             /\ cache' = tlocal[1]
        /\ cache # "None" => (cache' = cache /\ builds' = builds /\ assigns' = assigns)
        /\ tpc[1] \in {"fwdhead", "fwdmid", "fwdtail"} => cache' = cache]_vars

\* a call of each function returned after the call that built the cache
C29_Witness ==
  /\ cache # "None"
  /\ builds = 1
  /\ lastCall.valid
  /\ ~lastCall.built
  /\ lastCall.inp = <<KA, VIR>>
  /\ lastPure.valid
  /\ lastPure.fn = "krutidev_to_unicode"
  /\ tpc[1] = "idle"

\* tb is the whole reverse map: one entry per key, the legacy side of the
\* first rule, longest key first and table order among equal lengths
CompleteSorted(tb) ==
  /\ {tb[i][1] : i \in 1..Len(tb)} = ReverseKeys
  /\ Len(tb) = Cardinality(ReverseKeys)
  /\ \A i \in 1..Len(tb) : tb[i][2] = MAIN[FirstRule(tb[i][1])][1]
  /\ \A i \in 1..Len(tb), j \in 1..Len(tb) :
       i < j =>
         \/ Len(tb[i][1]) > Len(tb[j][1])
         \/ /\ Len(tb[i][1]) = Len(tb[j][1])
            /\ FirstRule(tb[i][1]) < FirstRule(tb[j][1])

\* the output of unicode_to_krutidev(t) with one caller
SingleThreadedOutput(t) ==
  ApplyPairs(ApplyPairs(t, SortedByKeyLen(SeenUnicode), 1), SortedByKeyLen(extra), 1)

\* C30: in every interleaving of concurrent calls of unicode_to_krutidev no
\* caller applies a partly built map: the cache, once set, is the whole sorted
\* table, the tables built by racing callers are equal to each other and to
\* the cache, and every output is the output of the same call made by a
\* single caller.
C30_NoPartialMap ==
  /\ cache # "None" => CompleteSorted(cache)
  /\ \A th \in Threads : tlocal[th] # "None" => CompleteSorted(tlocal[th])
  /\ \A th \in Threads, th2 \in Threads :
       (tlocal[th] # "None" /\ tlocal[th2] # "None") => tlocal[th] = tlocal[th2]
  /\ \A th \in Threads :
       (tlocal[th] # "None" /\ cache # "None") => tlocal[th] = cache
  /\ \A th \in Threads : tpc[th] = "apply" => cache # "None"
  /\ lastCall.valid => lastCall.out = SingleThreadedOutput(lastCall.inp)

\* two callers raced, both built and stored a table, and a call returned
C30_Witness ==
  /\ builds = 2
  /\ assigns = 2
  /\ lastCall.valid
  /\ lastCall.inp = <<KA, VIR>>
  /\ lastCall.out = <<"D">>
  /\ \E th \in Threads : tpc[th] = "apply" /\ tbuilder[th]

====
